---- MODULE Spec2Model ----
(***************************************************************************)
(* Model of main_final.py: the crawl orchestration of the Maps scraper     *)
(* (Sequential Mode: MapsScraperGUI.load_maps .. _got_place) and of the    *)
(* JustDial scraper (Snapshot Mode: JustDialScraper and the GUI handlers   *)
(* that drive it), with the two sqlite stores they write.                  *)
(*                                                                         *)
(* Strings that the code inspects character by character (keyword,         *)
(* location, table names) are sequences of one-character strings.          *)
(* Every handler that runs on the GUI thread is one action.  Work the code *)
(* hands to the Qt event loop (a page load, a QTimer.singleShot, a         *)
(* runJavaScript callback) is a pending event that a later action          *)
(* consumes.                                                               *)
(***************************************************************************)
EXTENDS Integers, Sequences, FiniteSets, TLC

(***************************************************************************)
(* Bounds of the model.                                                    *)
(***************************************************************************)
\* number of user commands (button clicks) in one behaviour of the Maps tab
MaxMapsCmds == 4
\* largest value the "Max Links to Extract" spin box takes in the model
MaxCap == 3
\* number of user commands in one behaviour of the JustDial tab
MaxJdCmds == 3
\* largest value the "Max Listings to Extract" spin box takes in the model
MaxListings == 5
\* number of user commands in one behaviour in which both tabs are used
MaxCmds == 3

(***************************************************************************)
(* Character strings.                                                      *)
(***************************************************************************)
UpperCase == <<"A","B","C","D","E","F","G","H","I","J","K","L","M",
               "N","O","P","Q","R","S","T","U","V","W","X","Y","Z">>
LowerCase == <<"a","b","c","d","e","f","g","h","i","j","k","l","m",
               "n","o","p","q","r","s","t","u","v","w","x","y","z">>
Digits == {"0","1","2","3","4","5","6","7","8","9"}

\* the characters kept by re.sub(r"[^a-z0-9_]", "", safe)
SafeChars == {LowerCase[i] : i \in 1..26} \cup Digits \cup {"_"}

\* str.lower() on one character
LowerChar(c) ==
  IF \E i \in 1..26 : UpperCase[i] = c
    THEN LowerCase[CHOOSE i \in 1..26 : UpperCase[i] = c]
    ELSE c

\* str.upper() on one character
UpperChar(c) ==
  IF \E i \in 1..26 : LowerCase[i] = c
    THEN UpperCase[CHOOSE i \in 1..26 : LowerCase[i] = c]
    ELSE c

\* c is a cased character (a letter)
IsLetter(c) == \E i \in 1..26 : UpperCase[i] = c \/ LowerCase[i] = c

\* str.title(): the first letter of every run of letters in upper case, the
\* other letters in lower case
Title(s) ==
  [i \in 1..Len(s) |->
     IF i = 1 \/ ~ IsLetter(s[i - 1]) THEN UpperChar(s[i]) ELSE LowerChar(s[i])]

\* str.replace('-', ' ')
ReplaceHyphens(s) == [i \in 1..Len(s) |-> IF s[i] = "-" THEN " " ELSE s[i]]

\* keyword.split('?')[0], applied when '?' is in keyword
RECURSIVE BeforeQuery(_)
BeforeQuery(s) ==
  IF s = <<>> \/ Head(s) = "?" THEN <<>> ELSE <<Head(s)>> \o BeforeQuery(Tail(s))

\* str.lower()
Lower(s) == [i \in 1..Len(s) |-> LowerChar(s[i])]

\* mutant of ReplaceSpaces: spaces are left in place
ReplaceSpaces_Kept(s) == s

\* str.replace(" ", "_")
ReplaceSpaces(s) == [i \in 1..Len(s) |-> IF s[i] = " " THEN "_" ELSE s[i]]

IsSafeChar(c) == c \in SafeChars

\* re.sub(r"[^a-z0-9_]", "", s)
StripUnsafe(s) == SelectSeq(s, IsSafeChar)

\* normalize_table_name(keyword, location)
normalize_table_name(keyword, location) ==
  StripUnsafe(ReplaceSpaces(Lower(keyword \o <<"_">> \o location)))

\* mutant of Strip: the text is taken as typed
Strip_AsTyped(s) == s

\* str.strip(): leading and trailing white space removed
RECURSIVE LStrip(_)
LStrip(s) == IF s # <<>> /\ Head(s) = " " THEN LStrip(Tail(s)) ELSE s
RECURSIVE RStrip(_)
RStrip(s) ==
  IF s # <<>> /\ s[Len(s)] = " " THEN RStrip(SubSeq(s, 1, Len(s) - 1)) ELSE s
Strip(s) == RStrip(LStrip(s))

Min(a, b) == IF a <= b THEN a ELSE b

\* int((i / n) * 100): equal to the floor of 100*i/n for every n the model
\* reaches (the float product is exact enough for n <= 12)
Percent(i, n) == (i * 100) \div n

(***************************************************************************)
(* Inputs.                                                                 *)
(***************************************************************************)
\* texts the user may have typed into a keyword field
KeywordInputs == { <<" ">>, <<"C">>, <<"c">> }
\* texts the user may have typed into a location field
LocationInputs == { <<>>, <<"P">> }
\* texts the user may have typed into the keyword field of the JustDial tab
JustDialKeywordInputs == { <<" ">>, <<"c">>, <<"d">> }

\* results of the link-discovery script of collect_links (hrefs are distinct)
HrefResults == { <<>>, <<"A","B","C">> }

\* results of the extraction script of _extract_place.  The script reads the
\* document the view shows, so its result is a function of that document:
\* pages A and B list the same business (same name and address) with
\* different phone numbers, page C another business; the search page and the
\* blank page have no name and no address; on an error page the script
\* returns nothing (None)
None == [none |-> TRUE]
PlaceOf(doc) ==
  CASE doc = "A" -> [name |-> "Joe", address |-> "MG", phone |-> "1", website |-> ""]
    [] doc = "B" -> [name |-> "Joe", address |-> "MG", phone |-> "2", website |-> "w"]
    [] doc = "C" -> [name |-> "Moe", address |-> "MG", phone |-> "1", website |-> ""]
    [] doc = "error" -> None
    [] OTHER -> [name |-> "", address |-> "", phone |-> "", website |-> ""]

(***************************************************************************)
(* State.                                                                  *)
(***************************************************************************)
VARIABLES
  \* ---- Maps tab (Sequential Mode), MapsScraperGUI fields ----
  links,             \* self.links
  links_index,       \* self.links_index
  current_keyword,   \* self.current_keyword
  current_location,  \* self.current_location
  scraping,          \* self.scraping
  next_action,       \* self._next_action is set (to self._extract_place)
  maps_progress,     \* value shown by self.maps_progress
  maps_status,       \* last line appended to self.maps_status
  maps_db,           \* businesses.db: table name -> rows in insertion order
  \* ---- Maps tab, work pending in the Qt event loop ----
  web_load,          \* the load self.web is performing, or NoLoad
  web_doc,           \* the document self.web shows
  settle_timers,     \* pending QTimer.singleShot(600, self._next_action)
  place_js,          \* pending runJavaScript(js, self._got_place)
  pace_timers,       \* pending QTimer.singleShot(800, self._process_next_link)
  links_js,          \* pending runJavaScript(js, self._got_links)
  \* ---- Maps tab, history of the current session ----
  maps_clock,        \* datetime.utcnow(): the time of the latest insert, in ticks
  hrefs_found,       \* the hrefs the last link collection discovered
  cap_used,          \* the Max Links value the last link collection applied
  undisturbed,       \* a crawl was started with no callback of an earlier one
                     \* pending, and no user command was carried out since
  cycles,            \* while undisturbed: the documents whose extraction
                     \* result arrived since the start
  maps_prog_log,     \* while undisturbed: the values passed to
                     \* maps_progress.setValue since the start
  maps_cmds,         \* user commands handled on the Maps tab
  maps_notice        \* title of the QMessageBox the latest user command on
                     \* the Maps tab showed, NoNotice if it showed none

maps_fields == <<links, links_index, current_keyword, current_location,
                scraping, next_action, maps_progress, maps_status, maps_db>>
maps_events == <<web_load, web_doc, settle_timers, place_js, pace_timers, links_js>>
maps_session == <<maps_clock, hrefs_found, cap_used, cycles, maps_prog_log,
                 undisturbed>>
maps_history == <<maps_session, maps_cmds>>
maps_vars == <<maps_fields, maps_events, maps_history, maps_notice>>

\* the titles of the message boxes
NoNotice == "none"
MissingInput == "Missing Input"
NoLinks == "No links"
InvalidURL == "Invalid URL"

NoLoad == "none"
\* the search page load_maps builds from the keyword and the location
SearchPage == "search"
\* the page a fresh QWebEngineView shows
BlankPage == "blank"

InitMaps ==
  /\ links = <<>>
  /\ links_index = 0
  /\ current_keyword = <<>>
  /\ current_location = <<>>
  /\ scraping = FALSE
  /\ next_action = FALSE
  /\ maps_progress = -1
  /\ maps_status = <<>>
  /\ maps_db = <<>>
  /\ web_load = NoLoad
  /\ web_doc = BlankPage
  /\ settle_timers = 0
  /\ place_js = 0
  /\ pace_timers = 0
  /\ links_js = 0
  /\ maps_clock = 0
  /\ hrefs_found = <<>>
  /\ cap_used = 0
  /\ cycles = <<>>
  /\ maps_prog_log = <<>>
  /\ undisturbed = FALSE
  /\ maps_cmds = 0
  /\ maps_notice = NoNotice

(***************************************************************************)
(* JustDial tab: state of the Snapshot Mode crawl.                         *)
(***************************************************************************)
VARIABLES
  \* ---- MapsScraperGUI fields of the JustDial tab ----
  justdial_keyword,   \* self.justdial_keyword
  justdial_location,  \* self.justdial_location
  justdial_page,      \* self.justdial_web.url()
  start_enabled,      \* self.start_justdial_scrape_btn.isEnabled()
  stop_enabled,       \* self.stop_justdial_scrape_btn.isEnabled()
  justdial_progress,  \* value shown by self.justdial_progress
  justdial_status,    \* last line appended to self.justdial_status
  justdial_db,        \* justdial_businesses.db: table name -> rows
  justdial_keyword_input,   \* text of the field self.justdial_keyword_input
  justdial_location_input,  \* text of the field self.justdial_location_input
  \* ---- the JustDialScraper object self.justdial_scraper ----
  is_running,         \* JustDialScraper._is_running
  max_listings,       \* JustDialScraper.max_listings
  jd_thread,          \* where the worker thread is: "none" before the first
                      \* start, "started" (before line 48), "emitted" (between
                      \* the emit of line 48 and runJavaScript), "except"
                      \* (in the except branch, between its two emits),
                      \* "returning" (run is about to return), "finished"
  \* ---- work pending in the Qt event loop, and the batch loop ----
  jd_js,              \* runJavaScript(js_code, process_results) is pending
  jd_finished_queued, \* finished_signal emitted by the worker thread, queued
  jd_status_queued,   \* the status_signal lines the worker thread emitted that
                      \* are queued for the GUI thread, oldest first
  justdial_web_load,  \* self.justdial_web is performing a load
  scroll_js,          \* pending runJavaScript(js_code, scroll_complete)
  scroll_timers,      \* pending QTimer.singleShot(3000, ...) of scroll_complete
  jd_pc,              \* where the GUI thread is: "idle" (in its event loop),
                      \* "loop" while process_results iterates, "wait" while
                      \* stop_justdial_scrape is blocked in QThread.wait()
  jd_batch,           \* result, the list process_results iterates over
  jd_i,               \* the loop index i of process_results
  \* ---- history of the current run ----
  jd_clock,           \* datetime.now(), in ticks (also seeds uuid.uuid4())
  jd_raw,             \* the listings of the page the script of this run read
  jd_forwarded,       \* the items emitted on data_signal in this run
  jd_finished,        \* number of finished_signal emissions of this run
  jd_stop_late,       \* a stop request was handled after the script was
                      \* dispatched and before the batch was handled
  jd_ended,           \* how the run ended: "none" while it has not
  jd_cmds,            \* user commands carried out on the JustDial tab
  jd_notice           \* title of the QMessageBox the latest user command on
                      \* the JustDial tab showed, NoNotice if it showed none

jd_fields == <<justdial_keyword, justdial_location, justdial_page,
              start_enabled, stop_enabled, justdial_progress, justdial_status,
              justdial_db>>
jd_scraper == <<is_running, max_listings, jd_thread>>
jd_inputs == <<justdial_keyword_input, justdial_location_input>>
jd_page_events == <<justdial_web_load, scroll_js, scroll_timers>>
jd_events == <<jd_js, jd_finished_queued, jd_status_queued, jd_page_events,
              jd_pc, jd_batch, jd_i>>
jd_session == <<jd_clock, jd_raw, jd_forwarded, jd_finished, jd_stop_late, jd_ended>>
jd_history == <<jd_session, jd_cmds>>
jd_vars == <<jd_fields, jd_inputs, jd_scraper, jd_events, jd_history, jd_notice>>

InitJustDial ==
  /\ justdial_keyword = <<>>
  /\ justdial_location = <<>>
  /\ justdial_page = ""
  /\ start_enabled = TRUE
  /\ stop_enabled = FALSE
  /\ justdial_progress = -1
  /\ justdial_status = <<>>
  /\ justdial_db = <<>>
  /\ justdial_keyword_input = <<>>
  /\ justdial_location_input = <<>>
  /\ is_running = FALSE
  /\ max_listings = 0
  /\ jd_thread = "none"
  /\ jd_js = FALSE
  /\ jd_finished_queued = FALSE
  /\ jd_status_queued = <<>>
  /\ justdial_web_load = FALSE
  /\ scroll_js = 0
  /\ scroll_timers = 0
  /\ jd_pc = "idle"
  /\ jd_batch = <<>>
  /\ jd_i = 0
  /\ jd_clock = 0
  /\ jd_raw = <<>>
  /\ jd_forwarded = <<>>
  /\ jd_finished = 0
  /\ jd_stop_late = FALSE
  /\ jd_ended = "none"
  /\ jd_cmds = 0
  /\ jd_notice = NoNotice

(***************************************************************************)
(* Direct calls of the two module-level helpers of the stores, with the    *)
(* arguments drawn from bounded sets of texts, and of the callback         *)
(* process_results, with the batch drawn from a set of batches.            *)
(***************************************************************************)
VARIABLES
  call_keyword,   \* the argument keyword
  call_location,  \* the argument location
  call_db,        \* the store file the calls act on
  call_tname,     \* the value the last call returned, <<>> before any return
  call_raised,    \* the last call of ensure_table raised sqlite3.OperationalError
  call_count,     \* number of calls of ensure_table made
  call_batch      \* the argument result of a direct call of process_results

call_vars == <<call_keyword, call_location, call_db, call_tname, call_raised,
               call_count, call_batch>>

vars == <<maps_vars, jd_vars, call_vars>>

\* what a handler of the Maps tab that shows no dialog leaves alone
maps_rest == <<maps_notice, jd_vars, call_vars>>
\* what an event handler of the JustDial tab (no click of the user) leaves alone
jd_rest == <<jd_notice, jd_inputs, maps_vars, call_vars>>

\* no direct call is made
InitNoCalls ==
  /\ call_keyword = <<>>
  /\ call_location = <<>>
  /\ call_db = <<>>
  /\ call_tname = <<>>
  /\ call_raised = FALSE
  /\ call_count = 0
  /\ call_batch = <<>>

Init == InitMaps /\ InitJustDial /\ InitNoCalls

(***************************************************************************)
(* The stores.  A store maps a table name to the sequence of its rows; a   *)
(* name outside its domain is a table that does not exist.                 *)
(***************************************************************************)
TableExists(db, tname) == tname \in DOMAIN db

\* mutant of CreateTableIfNotExists: an existing table is replaced
CreateTable_Replace(db, tname) ==
  [t \in DOMAIN db \cup {tname} |-> IF t = tname THEN <<>> ELSE db[t]]

\* CREATE TABLE IF NOT EXISTS tname (...)
CreateTableIfNotExists(db, tname) ==
  IF TableExists(db, tname) THEN db
  ELSE [t \in DOMAIN db \cup {tname} |-> IF t = tname THEN <<>> ELSE db[t]]

\* SQLite reads tname as an identifier: a name that begins with a digit is
\* not one ('unrecognized token')
ValidIdentifier(tname) == tname # <<>> /\ Head(tname) \notin Digits

\* the CREATE TABLE statement of ensure_table raises sqlite3.OperationalError
ensure_table_raises(keyword, location) ==
  ~ ValidIdentifier(normalize_table_name(keyword, location))

\* ensure_table(keyword, location, scraper): the store after the call
ensure_table(db, keyword, location) ==
  IF ensure_table_raises(keyword, location) THEN db
  ELSE CreateTableIfNotExists(db, normalize_table_name(keyword, location))

\* mutant of Existing: the address column is compared with the name
Existing_AddressTypo(db, tname, name, address) ==
  \E i \in 1..Len(db[tname]) :
    db[tname][i].name = name /\ db[tname][i].address = name

\* SELECT id FROM tname WHERE name = ? AND address = ?  followed by fetchone()
Existing(db, tname, name, address) ==
  \E i \in 1..Len(db[tname]) :
    db[tname][i].name = name /\ db[tname][i].address = address

\* INSERT INTO tname(...) VALUES (...)
InsertRow(db, tname, row) == [db EXCEPT ![tname] = Append(@, row)]

\* data.get(key, default) of _got_place, after "if not data: data = {}"
PlaceField(data, key) == IF data = None THEN "" ELSE data[key]

\* QProgressBar.setValue: a value outside minimum..maximum is ignored
SetValue(bar, v) == IF v >= 0 /\ v <= 100 THEN v ELSE bar


(***************************************************************************)
(* Maps tab: the handlers of the Sequential Mode crawl.                    *)
(***************************************************************************)
\* the bound of the model on the user commands: mine commands were given on
\* the tab (at most max are), other commands on the other tab
CommandAllowed(mine, other, max) ==
  /\ mine < max
  /\ other > 0 => mine + other < MaxCmds

\* the user clicks a button of the Maps tab
MapsClick ==
  /\ CommandAllowed(maps_cmds, jd_cmds, MaxMapsCmds)
  /\ maps_cmds' = maps_cmds + 1
  /\ UNCHANGED <<jd_vars, call_vars>>

\* a user command on the Maps tab that shows no message box
MapsCommand ==
  /\ MapsClick
  /\ maps_notice' = NoNotice

\* MapsScraperGUI.load_maps, with the texts of the two input fields
load_maps(keyword_input, location_input) ==
  LET k == Strip(keyword_input)
      l == Strip(location_input)
  IN IF k = <<>> \/ l = <<>>
       THEN \* QMessageBox.warning(...); return
            /\ MapsClick
            /\ maps_notice' = MissingInput
            /\ UNCHANGED <<maps_fields, maps_events, maps_session>>
       ELSE /\ MapsCommand
            /\ current_keyword' = k
            /\ current_location' = l
            /\ web_load' = SearchPage
            /\ maps_status' = <<"Loaded Maps">>
            /\ undisturbed' = FALSE
            /\ cycles' = <<>>
            /\ maps_prog_log' = <<>>
            /\ UNCHANGED <<links, links_index, scraping, next_action,
                           maps_progress, maps_db, web_doc, settle_timers,
                           place_js, pace_timers, links_js, maps_clock,
                           hrefs_found, cap_used>>

\* MapsScraperGUI.collect_links: the link-discovery script is dispatched
collect_links ==
  /\ MapsCommand
  /\ links_js' = links_js + 1
  /\ undisturbed' = FALSE
  /\ cycles' = <<>>
  /\ maps_prog_log' = <<>>
  /\ UNCHANGED <<maps_fields, web_load, web_doc, settle_timers, place_js,
                 pace_timers, maps_clock, hrefs_found, cap_used>>

\* mutant of Slice: the cap is not applied
Slice_NoCap(hrefs, max_links) == hrefs

\* hrefs[:max_links]
Slice(hrefs, max_links) == SubSeq(hrefs, 1, Min(Len(hrefs), max_links))

\* MapsScraperGUI._got_links(hrefs), max_links being the spin box value
got_links(hrefs, max_links) ==
  /\ links_js > 0
  /\ UNCHANGED maps_rest
  /\ links_js' = links_js - 1
  /\ IF hrefs = <<>>
       THEN /\ maps_status' = <<"No links found.">>
            /\ UNCHANGED <<links, links_index, hrefs_found, cap_used>>
       ELSE /\ links' = Slice(hrefs, max_links)
            /\ links_index' = 0
            /\ maps_status' = <<"Collected links">>
            /\ hrefs_found' = hrefs
            /\ cap_used' = max_links
  /\ UNCHANGED <<current_keyword, current_location, scraping, next_action,
                 maps_progress, maps_db, web_load, web_doc, settle_timers,
                 place_js, pace_timers, maps_clock, cycles, maps_prog_log,
                 undisturbed, maps_cmds>>

\* the body of MapsScraperGUI._process_next_link at cursor position index;
\* running and status are the values of self.scraping and of the status line
\* when it is entered
process_next_link(index, running, status) ==
  IF index >= Len(links')
    THEN /\ scraping' = FALSE
         /\ maps_status' = <<"Scraping finished.">>
         /\ UNCHANGED <<next_action, web_load>>
    ELSE /\ scraping' = running
         /\ maps_status' = status
         /\ next_action' = TRUE
         /\ web_load' = links'[index + 1]

\* no callback of an earlier crawl is still pending
NoPendingStep ==
  settle_timers = 0 /\ place_js = 0 /\ pace_timers = 0 /\ links_js = 0

\* mutant of NoTargets: the list of targets is never taken for empty
NoTargets_Never == links # links

\* "if not self.links" of start_scrape
NoTargets == links = <<>>

\* MapsScraperGUI.start_scrape
start_scrape ==
  IF NoTargets
    THEN \* QMessageBox.information(...); return
         /\ MapsClick
         /\ maps_notice' = NoLinks
         /\ UNCHANGED <<maps_fields, maps_events, maps_session>>
    ELSE IF ensure_table_raises(current_keyword, current_location)
      THEN \* the exception leaves the handler before any assignment
           /\ MapsCommand
           /\ UNCHANGED <<maps_fields, maps_events, maps_session>>
      ELSE /\ MapsCommand
           /\ maps_db' = ensure_table(maps_db, current_keyword, current_location)
           /\ links_index' = 0
           /\ maps_progress' = SetValue(maps_progress, 0)
           /\ maps_prog_log' = IF NoPendingStep THEN <<0>> ELSE <<>>
           /\ cycles' = <<>>
           /\ undisturbed' = NoPendingStep
           /\ UNCHANGED links
           /\ process_next_link(0, TRUE, maps_status)
           /\ UNCHANGED <<current_keyword, current_location, web_doc,
                          settle_timers, place_js, pace_timers, links_js,
                          maps_clock, hrefs_found, cap_used>>

\* the pacing timer fires: MapsScraperGUI._process_next_link
pace_timer_fires ==
  /\ pace_timers > 0
  /\ UNCHANGED maps_rest
  /\ pace_timers' = pace_timers - 1
  /\ UNCHANGED links
  /\ process_next_link(links_index, scraping, maps_status)
  /\ UNCHANGED <<links_index, current_keyword, current_location,
                 maps_progress, maps_db, web_doc, settle_timers, place_js,
                 links_js, maps_history>>

\* the page of a failed load
ErrorPage == "error"

\* the load of self.web ends: MapsScraperGUI._on_load_finished(ok)
on_load_finished(ok) ==
  /\ web_load # NoLoad
  /\ UNCHANGED maps_rest
  /\ web_load' = NoLoad
  /\ web_doc' = IF ok THEN web_load ELSE ErrorPage
  /\ settle_timers' = IF ok /\ next_action THEN settle_timers + 1 ELSE settle_timers
  /\ UNCHANGED <<maps_fields, place_js, pace_timers, links_js, maps_history>>

\* the settle timer fires: MapsScraperGUI._extract_place dispatches the script
extract_place ==
  /\ settle_timers > 0
  /\ UNCHANGED maps_rest
  /\ settle_timers' = settle_timers - 1
  /\ place_js' = place_js + 1
  /\ UNCHANGED <<maps_fields, web_load, web_doc, pace_timers, links_js,
                 maps_history>>

\* get_current_table("maps")
maps_current_table == normalize_table_name(current_keyword, current_location)

\* mutant of MapsRow: the row does not record the query
MapsRow_NoQuery(data) ==
  [id         |-> Len(maps_db[maps_current_table]) + 1,
   name       |-> PlaceField(data, "name"),
   address    |-> PlaceField(data, "address"),
   phone      |-> PlaceField(data, "phone"),
   website    |-> PlaceField(data, "website"),
   keyword    |-> << >>,
   location   |-> << >>,
   scraped_at |-> maps_clock]

\* the row _got_place inserts for data
MapsRow(data) ==
  [id         |-> Len(maps_db[maps_current_table]) + 1,
   name       |-> PlaceField(data, "name"),
   address    |-> PlaceField(data, "address"),
   phone      |-> PlaceField(data, "phone"),
   website    |-> PlaceField(data, "website"),
   keyword    |-> current_keyword,
   location   |-> current_location,
   scraped_at |-> maps_clock]

\* the SELECT of _got_place raises sqlite3.OperationalError (no such table)
MapsStoreError == ~ TableExists(maps_db, maps_current_table)

\* mutant of MapsDuplicate: the lookup is by (name, phone)
MapsDuplicate_ByPhone(data) ==
  \E i \in 1..Len(maps_db[maps_current_table]) :
    /\ maps_db[maps_current_table][i].name = PlaceField(data, "name")
    /\ maps_db[maps_current_table][i].phone = PlaceField(data, "phone")

\* _got_place finds the (name, address) of data in the current table
MapsDuplicate(data) ==
  Existing(maps_db, maps_current_table,
           PlaceField(data, "name"), PlaceField(data, "address"))

\* MapsScraperGUI._got_place(data)
got_place(data) ==
  /\ place_js > 0
  /\ UNCHANGED maps_rest
  /\ place_js' = place_js - 1
  /\ cycles' = IF undisturbed THEN Append(cycles, web_doc) ELSE cycles
  /\ IF MapsStoreError
       THEN \* the exception leaves the handler before any assignment
            UNCHANGED <<maps_fields, pace_timers, maps_prog_log, maps_clock>>
       ELSE /\ IF MapsDuplicate(data)
                 THEN /\ maps_db' = maps_db
                      /\ maps_clock' = maps_clock
                      /\ maps_status' = <<"Skipped duplicate", PlaceField(data, "name")>>
                 ELSE /\ maps_db' = InsertRow(maps_db, maps_current_table, MapsRow(data))
                      /\ maps_clock' = maps_clock + 1
                      /\ maps_status' = <<"Saved", PlaceField(data, "name")>>
            /\ links_index' = links_index + 1
            /\ maps_progress' =
                 SetValue(maps_progress, Percent(links_index + 1, Len(links)))
            /\ maps_prog_log' =
                 IF undisturbed
                   THEN Append(maps_prog_log, Percent(links_index + 1, Len(links)))
                   ELSE maps_prog_log
            /\ pace_timers' = pace_timers + 1
            /\ UNCHANGED <<links, current_keyword, current_location, scraping,
                           next_action>>
  /\ UNCHANGED <<web_load, web_doc, settle_timers, links_js, hrefs_found,
                 cap_used, undisturbed, maps_cmds>>

NextMaps ==
  \/ \E k \in KeywordInputs, l \in LocationInputs : load_maps(k, l)
  \/ collect_links
  \/ \E hrefs \in HrefResults, max_links \in 1..MaxCap : got_links(hrefs, max_links)
  \/ start_scrape
  \/ pace_timer_fires
  \/ \E ok \in BOOLEAN : on_load_finished(ok)
  \/ extract_place
  \/ got_place(PlaceOf(web_doc))


(***************************************************************************)
(* The extraction script of JustDialScraper.run.  A page is the sequence   *)
(* of its listing elements; name is "N/A" for a listing without a title    *)
(* element and "" for one whose title is blank.                            *)
(***************************************************************************)
\* extractListingData(listing): null (None) for a listing without a name
extractListingData(listing) ==
  IF listing.name = "" \/ listing.name = "N/A" THEN None ELSE listing

\* the for loop of the script over listings[k..], results and seenNames so far
RECURSIVE ScriptLoop(_, _, _, _)
ScriptLoop(listings, k, results, seenNames) ==
  IF k > Len(listings) THEN results
  ELSE LET data == extractListingData(listings[k])
       IN IF data # None /\ data.name # "N/A" /\ data.name \notin seenNames
            THEN ScriptLoop(listings, k + 1, Append(results, data),
                            seenNames \cup {data.name})
            ELSE ScriptLoop(listings, k + 1, results, seenNames)

\* the value the script returns for a page
ExtractListings(listings) == ScriptLoop(listings, 1, <<>>, {})

\* the pages the model loads into the JustDial view
Listing(n, a, p) == [name |-> n, address |-> a, phone |-> p]
FivePage == << Listing("Joe", "MG", "1"), Listing("Moe", "MG", "2"),
               Listing("N/A", "N/A", "N/A"),
               Listing("Zoe", "MG", "3"), Listing("Ann", "MG", "4") >>
TwinPage == << Listing("Joe", "MG", "1"), Listing("Joe", "HQ", "5"),
               Listing("", "MG", "6") >>
EmptyPage == << >>
JdPages == { FivePage, TwinPage, EmptyPage }

\* what runJavaScript hands to process_results: the list the script returned
\* (None when the script could not be evaluated)
JsList(items) == [list |-> items]

\* URLs of the model, and those that contain "justdial.com"
GeneratedUrl == "https://www.justdial.com/l/k"
DirectUrlInputs ==
  { "", "www.justdial.com/Pune/Cafes", "justdial.com", "example.com/x" }
TargetSiteUrls ==
  { GeneratedUrl, "https://www.justdial.com/Pune/Cafes", "https://justdial.com" }

\* direct_url after: if not direct_url.startswith("http"): prepend "https://"
WithScheme(url) ==
  CASE url = "www.justdial.com/Pune/Cafes" -> "https://www.justdial.com/Pune/Cafes"
    [] url = "justdial.com" -> "https://justdial.com"
    [] url = "example.com/x" -> "https://example.com/x"
    [] OTHER -> url

\* urlparse(direct_url).path.split('/')
PathParts(url) ==
  CASE url = "https://www.justdial.com/Pune/Cafes" ->
         << <<>>, <<"P", "u", "n", "e">>, <<"C", "a", "f", "e", "s">> >>
    [] url = "https://example.com/x" -> << <<>>, <<"x">> >>
    [] OTHER -> << <<>> >>

\* the elements of a sequence
Range(s) == { s[i] : i \in 1..Len(s) }

\* mutant of OnTargetSite: every page passes for a page of the site
OnTargetSite_Always(url) == url = url

\* "justdial.com" in url
OnTargetSite(url) == url \in TargetSiteUrls


(***************************************************************************)
(* JustDial tab: the handlers of the Snapshot Mode crawl.  The handlers of *)
(* the GUI thread run one at a time: while process_results iterates        *)
(* (jd_pc = "loop", it sleeps between items without returning to the event *)
(* loop) and while stop_justdial_scrape waits for the worker thread        *)
(* (jd_pc = "wait") no other handler of the GUI thread starts.  The worker *)
(* thread runs JustDialScraper.run beside the GUI thread, one step per     *)
(* statement that the GUI thread can observe.  A signal the worker thread  *)
(* emits is queued for the GUI thread, and the GUI thread handles what was *)
(* posted to it in the order of posting.                                   *)
(***************************************************************************)
\* the user clicks a button of the JustDial tab
JdClick ==
  /\ CommandAllowed(jd_cmds, maps_cmds, MaxJdCmds)
  /\ jd_cmds' = jd_cmds + 1

\* a user command on the JustDial tab that shows no message box
JdCommand ==
  /\ JdClick
  /\ jd_notice' = NoNotice

\* the texts the keyword field may hold when a button is clicked: one the
\* user typed, or the text the field held already
KeywordFieldTexts == JustDialKeywordInputs \cup {justdial_keyword_input}
\* the same for the location field
LocationFieldTexts == LocationInputs \cup {justdial_location_input}

\* the two fields hold what the user typed
fields_as_typed(keyword_input, location_input) ==
  /\ justdial_keyword_input' = keyword_input
  /\ justdial_location_input' = location_input

\* MapsScraperGUI.load_justdial, with the texts of the three input fields
load_justdial(direct_url, keyword_input, location_input) ==
  /\ jd_pc = "idle"
  /\ UNCHANGED <<maps_vars, call_vars>>
  /\ IF direct_url # ""
       THEN IF ~ OnTargetSite(WithScheme(direct_url))
              THEN \* QMessageBox.warning(...); return
                   /\ JdClick
                   /\ jd_notice' = InvalidURL
                   /\ fields_as_typed(keyword_input, location_input)
                   /\ UNCHANGED <<jd_fields, jd_scraper, jd_events, jd_session>>
              ELSE LET path_parts == PathParts(WithScheme(direct_url))
                   IN /\ JdCommand
                      /\ justdial_page' = WithScheme(direct_url)
                      /\ justdial_web_load' = TRUE
                      /\ IF Len(path_parts) >= 3
                           THEN LET location == path_parts[2]
                                    keyword == IF "?" \in Range(path_parts[3])
                                                 THEN BeforeQuery(path_parts[3])
                                                 ELSE path_parts[3]
                                IN /\ justdial_keyword_input' =
                                        Title(ReplaceHyphens(keyword))
                                   /\ justdial_location_input' =
                                        Title(ReplaceHyphens(location))
                                   /\ justdial_status' =
                                        <<"Extracted keyword", keyword, location>>
                           ELSE /\ fields_as_typed(keyword_input, location_input)
                                /\ justdial_status' =
                                     <<"Loaded JustDial from direct URL">>
                      /\ UNCHANGED <<justdial_keyword, justdial_location,
                                     start_enabled, stop_enabled, justdial_progress,
                                     justdial_db, jd_scraper, jd_js,
                                     jd_finished_queued, jd_status_queued,
                                     scroll_js, scroll_timers, jd_pc, jd_batch,
                                     jd_i, jd_clock, jd_raw, jd_forwarded,
                                     jd_finished, jd_stop_late, jd_ended>>
       ELSE LET k == Strip(keyword_input)
                l == Strip(location_input)
            IN /\ fields_as_typed(keyword_input, location_input)
               /\ IF k = <<>> \/ l = <<>>
                    THEN \* QMessageBox.warning(...); return
                         /\ JdClick
                         /\ jd_notice' = MissingInput
                         /\ UNCHANGED <<jd_fields, jd_scraper, jd_events, jd_session>>
                    ELSE /\ JdCommand
                         /\ justdial_keyword' = k
                         /\ justdial_location' = l
                         /\ justdial_page' = GeneratedUrl
                         /\ justdial_web_load' = TRUE
                         /\ justdial_status' = <<"Loaded JustDial">>
                         /\ UNCHANGED <<start_enabled, stop_enabled,
                                        justdial_progress, justdial_db, jd_scraper,
                                        jd_js, jd_finished_queued,
                                        jd_status_queued, scroll_js,
                                        scroll_timers, jd_pc, jd_batch, jd_i,
                                        jd_clock, jd_raw, jd_forwarded,
                                        jd_finished, jd_stop_late, jd_ended>>

\* the load of self.justdial_web ends:
\* MapsScraperGUI._on_justdial_load_finished(ok)
on_justdial_load_finished(ok) ==
  /\ jd_pc = "idle"
  /\ justdial_web_load
  /\ UNCHANGED jd_rest
  /\ justdial_web_load' = FALSE
  /\ justdial_status' =
       IF ok THEN <<"JustDial page loaded successfully">> ELSE justdial_status
  /\ UNCHANGED <<justdial_keyword, justdial_location, justdial_page,
                 start_enabled, stop_enabled, justdial_progress, justdial_db,
                 jd_scraper, jd_js, jd_finished_queued, jd_status_queued,
                 scroll_js, scroll_timers, jd_pc, jd_batch, jd_i, jd_history>>

\* MapsScraperGUI.scroll_justdial: the scroll script is dispatched
scroll_justdial ==
  /\ jd_pc = "idle"
  /\ JdCommand
  /\ UNCHANGED <<maps_vars, call_vars, jd_inputs>>
  /\ scroll_js' = scroll_js + 1
  /\ UNCHANGED <<jd_fields, jd_scraper, jd_js, jd_finished_queued,
                 jd_status_queued, justdial_web_load, scroll_timers, jd_pc,
                 jd_batch, jd_i, jd_clock, jd_raw, jd_forwarded, jd_finished,
                 jd_stop_late, jd_ended>>

\* scroll_complete(result), the callback of the scroll script
scroll_complete ==
  /\ jd_pc = "idle"
  /\ scroll_js > 0
  /\ UNCHANGED jd_rest
  /\ scroll_js' = scroll_js - 1
  /\ justdial_status' = <<"Scrolled to load more content.">>
  /\ scroll_timers' = scroll_timers + 1
  /\ UNCHANGED <<justdial_keyword, justdial_location, justdial_page,
                 start_enabled, stop_enabled, justdial_progress, justdial_db,
                 jd_scraper, jd_js, jd_finished_queued, jd_status_queued,
                 justdial_web_load, jd_pc, jd_batch, jd_i, jd_history>>

\* the 3000 ms timer of scroll_complete fires
scroll_timer_fires ==
  /\ jd_pc = "idle"
  /\ scroll_timers > 0
  /\ UNCHANGED jd_rest
  /\ scroll_timers' = scroll_timers - 1
  /\ justdial_status' = <<"Content should be loaded now.">>
  /\ UNCHANGED <<justdial_keyword, justdial_location, justdial_page,
                 start_enabled, stop_enabled, justdial_progress, justdial_db,
                 jd_scraper, jd_js, jd_finished_queued, jd_status_queued,
                 justdial_web_load, scroll_js, jd_pc, jd_batch, jd_i,
                 jd_history>>

\* MapsScraperGUI.start_justdial_scrape, with the texts of the input fields and
\* the value of the Max Listings spin box; the button is clickable when enabled
start_justdial_scrape(keyword_input, location_input, spin_value) ==
  LET k == Strip(keyword_input)
      l == Strip(location_input)
  IN /\ jd_pc = "idle"
     /\ start_enabled
     /\ UNCHANGED <<maps_vars, call_vars>>
     /\ fields_as_typed(keyword_input, location_input)
     /\ IF k = <<>> \/ l = <<>>
          THEN \* QMessageBox.warning(...); return
               /\ JdClick
               /\ jd_notice' = MissingInput
               /\ UNCHANGED <<jd_fields, jd_scraper, jd_events, jd_session>>
          ELSE IF ~ OnTargetSite(justdial_page)
            THEN /\ JdCommand
                 /\ justdial_status' = <<"Please load a JustDial page first">>
                 /\ UNCHANGED <<justdial_keyword, justdial_location,
                                justdial_page, start_enabled, stop_enabled,
                                justdial_progress, justdial_db, jd_scraper,
                                jd_events, jd_session>>
            ELSE IF ensure_table_raises(k, l)
              THEN \* the exception leaves the handler after the two
                   \* assignments of the query
                   /\ JdCommand
                   /\ justdial_keyword' = k
                   /\ justdial_location' = l
                   /\ UNCHANGED <<justdial_page, start_enabled, stop_enabled,
                                  justdial_progress, justdial_status,
                                  justdial_db, jd_scraper, jd_events, jd_clock,
                                  jd_raw, jd_forwarded, jd_finished,
                                  jd_stop_late, jd_ended>>
            ELSE /\ JdCommand
                 /\ justdial_keyword' = k
                 /\ justdial_location' = l
                 /\ justdial_db' = ensure_table(justdial_db, k, l)
                 /\ is_running' = TRUE
                 /\ max_listings' = spin_value
                 /\ jd_thread' = "started"
                 /\ start_enabled' = FALSE
                 /\ stop_enabled' = TRUE
                 /\ jd_raw' = <<>>
                 /\ jd_forwarded' = <<>>
                 /\ jd_finished' = 0
                 /\ jd_stop_late' = FALSE
                 /\ jd_ended' = "none"
                 /\ UNCHANGED <<justdial_page, justdial_progress,
                                justdial_status, jd_events, jd_clock>>

\* the worker thread executes line 48 of JustDialScraper.run: the status
\* line it emits is queued for the GUI thread
thread_emit ==
  /\ jd_thread = "started"
  /\ UNCHANGED jd_rest
  /\ jd_thread' = "emitted"
  /\ jd_status_queued' =
       Append(jd_status_queued, <<"Starting JustDial scraping">>)
  /\ UNCHANGED <<jd_fields, jd_page_events, is_running, max_listings, jd_js,
                 jd_finished_queued, jd_pc, jd_batch, jd_i, jd_history>>

\* the call of runJavaScript in JustDialScraper.run (line 208); ok is false
\* when the call raises: the worker thread enters the except branch and
\* emits its status line (line 211), which is queued for the GUI thread
run_dispatch(ok) ==
  IF ok
    THEN /\ jd_js' = TRUE
         /\ jd_thread' = "returning"
         /\ UNCHANGED jd_status_queued
    ELSE /\ jd_status_queued' =
              Append(jd_status_queued, <<"Error in JustDial scraper">>)
         /\ jd_thread' = "except"
         /\ UNCHANGED jd_js

\* the worker thread executes the try block of JustDialScraper.run after
\* line 48 and, when runJavaScript raises, the first emit of the except
\* branch
thread_dispatch(ok) ==
  /\ jd_thread = "emitted"
  /\ UNCHANGED jd_rest
  /\ run_dispatch(ok)
  /\ UNCHANGED <<jd_fields, jd_page_events, jd_finished_queued,
                 is_running, max_listings, jd_pc, jd_batch, jd_i, jd_history>>

\* the worker thread executes line 212, the second emit of the except
\* branch: finished_signal is queued for the GUI thread
thread_emit_finished ==
  /\ jd_thread = "except"
  /\ UNCHANGED jd_rest
  /\ jd_thread' = "returning"
  /\ jd_finished_queued' = TRUE
  /\ jd_finished' = jd_finished + 1
  /\ jd_ended' = "dispatch error"
  /\ UNCHANGED <<jd_fields, jd_page_events, jd_status_queued,
                 is_running, max_listings, jd_js, jd_pc, jd_batch, jd_i,
                 jd_clock, jd_raw, jd_forwarded, jd_stop_late, jd_cmds>>

\* JustDialScraper.run returns and the worker thread ends
thread_exit ==
  /\ jd_thread = "returning"
  /\ UNCHANGED jd_rest
  /\ jd_thread' = "finished"
  /\ UNCHANGED <<jd_fields, is_running, max_listings, jd_events, jd_history>>

\* QThread.isRunning() of self.justdial_scraper
isRunning == jd_thread \in {"started", "emitted", "except", "returning"}

\* a status line the worker thread emitted reaches its slot, the lambda of
\* start_justdial_scrape that calls self.log(msg, "justdial")
status_delivered ==
  /\ jd_pc = "idle"
  /\ jd_status_queued # <<>>
  /\ UNCHANGED jd_rest
  /\ justdial_status' = Head(jd_status_queued)
  /\ jd_status_queued' = Tail(jd_status_queued)
  /\ UNCHANGED <<justdial_keyword, justdial_location, justdial_page,
                 start_enabled, stop_enabled, justdial_progress, justdial_db,
                 jd_scraper, jd_js, jd_finished_queued, jd_page_events, jd_pc,
                 jd_batch, jd_i, jd_history>>

\* MapsScraperGUI.justdial_scraping_finished, the slot of finished_signal
justdial_scraping_finished ==
  /\ start_enabled' = TRUE
  /\ stop_enabled' = FALSE

\* a finished_signal the worker thread emitted reaches its slot, after the
\* status lines the thread emitted before it
finished_delivered ==
  /\ jd_pc = "idle"
  /\ jd_status_queued = <<>>
  /\ UNCHANGED jd_rest
  /\ jd_finished_queued
  /\ jd_finished_queued' = FALSE
  /\ justdial_scraping_finished
  /\ UNCHANGED <<justdial_keyword, justdial_location, justdial_page,
                 justdial_progress, justdial_status, justdial_db, jd_scraper,
                 jd_js, jd_status_queued, jd_page_events, jd_pc, jd_batch,
                 jd_i, jd_history>>

\* MapsScraperGUI.stop_justdial_scrape up to the call of wait(); the button
\* is clickable when enabled.  With the worker thread running the handler
\* clears the flag and blocks in QThread.wait(); otherwise it does nothing
stop_justdial_scrape ==
  /\ jd_pc = "idle"
  /\ UNCHANGED <<maps_vars, call_vars, jd_inputs>>
  /\ stop_enabled
  /\ JdCommand
  /\ jd_stop_late' = (jd_stop_late \/ jd_js)
  /\ IF isRunning
       THEN /\ is_running' = FALSE
            /\ jd_pc' = "wait"
       ELSE UNCHANGED <<is_running, jd_pc>>
  /\ UNCHANGED <<jd_fields, max_listings, jd_thread, jd_js,
                 jd_finished_queued, jd_status_queued, jd_page_events,
                 jd_batch, jd_i, jd_clock, jd_raw, jd_forwarded, jd_finished,
                 jd_ended>>

\* the worker thread has ended: wait() returns and stop_justdial_scrape logs
\* its line (line 651)
stop_wait_returns ==
  /\ jd_pc = "wait"
  /\ jd_thread = "finished"
  /\ UNCHANGED jd_rest
  /\ jd_pc' = "idle"
  /\ justdial_status' = <<"JustDial scraping stopped by user">>
  /\ UNCHANGED <<justdial_keyword, justdial_location, justdial_page,
                 start_enabled, stop_enabled, justdial_progress, justdial_db,
                 jd_scraper, jd_js, jd_finished_queued, jd_status_queued,
                 jd_page_events, jd_batch, jd_i, jd_history>>


\* get_current_table("justdial")
justdial_current_table == normalize_table_name(justdial_keyword, justdial_location)

\* data_with_meta of process_results for a batch item: the id is a fresh
\* uuid and scraped_at the current time
DataWithMeta(item) ==
  [id         |-> jd_clock + 1,
   name       |-> item.name,
   address    |-> item.address,
   phone      |-> item.phone,
   scraped_at |-> jd_clock + 1]

\* the row save_justdial_data inserts for data
JustDialRow(data) ==
  [id         |-> data.id,
   name       |-> data.name,
   address    |-> data.address,
   phone      |-> data.phone,
   keyword    |-> justdial_keyword,
   location   |-> justdial_location,
   scraped_at |-> data.scraped_at]

\* the SELECT of save_justdial_data raises sqlite3.OperationalError
JustDialStoreError == ~ TableExists(justdial_db, justdial_current_table)

\* save_justdial_data finds the (name, address) of data in the current table
JustDialDuplicate(data) ==
  Existing(justdial_db, justdial_current_table, data.name, data.address)

\* MapsScraperGUI.save_justdial_data(data), when the store raises no error
save_justdial_data(data) ==
  IF JustDialDuplicate(data)
    THEN /\ justdial_db' = justdial_db
         /\ justdial_status' = <<"Skipped duplicate", data.name>>
    ELSE /\ justdial_db' = InsertRow(justdial_db, justdial_current_table,
                                     JustDialRow(data))
         /\ justdial_status' = <<"Saved", data.name>>

\* process_results(result) up to its for loop: the callback of runJavaScript,
\* called on the GUI thread, whose slots run at once.  The status line of
\* run was posted before the script was dispatched and is handled first
process_results(result) ==
  /\ jd_pc = "idle"
  /\ jd_status_queued = <<>>
  /\ UNCHANGED jd_rest
  /\ jd_js
  /\ jd_js' = FALSE
  /\ IF result = None \/ result.list = <<>>
       THEN /\ justdial_status' = <<"No listings found or invalid page structure.">>
            /\ jd_finished' = jd_finished + 1
            /\ justdial_scraping_finished
            /\ jd_ended' = "no listings"
            /\ UNCHANGED <<jd_pc, jd_batch, jd_i>>
       ELSE /\ justdial_status' = <<"Found listings", Len(result.list)>>
            /\ jd_pc' = "loop"
            /\ jd_batch' = result.list
            /\ jd_i' = 0
            /\ UNCHANGED <<start_enabled, stop_enabled, jd_finished, jd_ended>>
  /\ UNCHANGED <<justdial_keyword, justdial_location, justdial_page,
                 justdial_progress, justdial_db, jd_scraper,
                 jd_finished_queued, jd_status_queued, jd_page_events,
                 jd_clock, jd_forwarded, jd_stop_late, jd_cmds>>

\* the script has read the page and its value arrives at process_results
script_returned(page) ==
  /\ jd_raw' = page
  /\ process_results(JsList(ExtractListings(page)))

\* the script could not be evaluated and None arrives at process_results
script_failed ==
  /\ jd_raw' = <<>>
  /\ process_results(None)

\* mutant of LoopBreaks: the cap is not looked at
LoopBreaks_NoCap == ~ is_running

\* the condition of "break" in the for loop of process_results
LoopBreaks == ~ is_running \/ jd_i >= max_listings

\* one pass of the for loop of process_results, or its end.  An exception
\* of the slot save_justdial_data ends the run: nothing after the emit runs
loop_step ==
  /\ jd_pc = "loop"
  /\ UNCHANGED jd_rest
  /\ IF jd_i >= Len(jd_batch) \/ LoopBreaks
       THEN /\ justdial_status' =
                 <<"Finished processing", Min(Len(jd_batch), max_listings)>>
            /\ jd_finished' = jd_finished + 1
            /\ justdial_scraping_finished
            /\ jd_ended' = "finished"
            /\ jd_pc' = "idle"
            /\ jd_batch' = <<>>
            /\ jd_i' = 0
            /\ UNCHANGED <<justdial_progress, justdial_db, jd_clock, jd_raw, jd_forwarded>>
       ELSE LET data == DataWithMeta(jd_batch[jd_i + 1])
            IN /\ jd_clock' = jd_clock + 1
               /\ jd_forwarded' = Append(jd_forwarded, data)
               /\ IF JustDialStoreError
                    THEN /\ jd_ended' = "store error"
                         /\ jd_pc' = "idle"
                         /\ jd_batch' = <<>>
                         /\ jd_i' = 0
                         /\ UNCHANGED <<justdial_progress, justdial_status,
                                        justdial_db>>
                    ELSE /\ save_justdial_data(data)
                         /\ justdial_progress' =
                              SetValue(justdial_progress,
                                       Percent(jd_i + 1,
                                               Min(Len(jd_batch), max_listings)))
                         /\ jd_i' = jd_i + 1
                         /\ UNCHANGED <<jd_ended, jd_pc, jd_batch>>
               /\ UNCHANGED <<start_enabled, stop_enabled, jd_finished, jd_raw>>
  /\ UNCHANGED <<justdial_keyword, justdial_location, justdial_page,
                 jd_scraper, jd_js, jd_finished_queued, jd_status_queued,
                 jd_page_events, jd_stop_late, jd_cmds>>

NextJustDial ==
  \/ \E u \in DirectUrlInputs, k \in KeywordFieldTexts, l \in LocationFieldTexts :
       load_justdial(u, k, l)
  \/ \E ok \in BOOLEAN : on_justdial_load_finished(ok)
  \/ scroll_justdial
  \/ scroll_complete
  \/ scroll_timer_fires
  \/ \E k \in KeywordFieldTexts, l \in LocationFieldTexts, n \in 1..MaxListings :
       start_justdial_scrape(k, l, n)
  \/ thread_emit
  \/ \E ok \in BOOLEAN : thread_dispatch(ok)
  \/ thread_emit_finished
  \/ thread_exit
  \/ status_delivered
  \/ finished_delivered
  \/ stop_justdial_scrape
  \/ stop_wait_returns
  \/ script_failed
  \/ \E page \in JdPages : script_returned(page)
  \/ loop_step

(***************************************************************************)
(* Direct calls of normalize_table_name and of ensure_table.               *)
(***************************************************************************)
\* longest keyword text of a direct call
MaxLen == 2
\* number of calls of ensure_table in one behaviour
MaxCalls == 2

\* the characters of the texts: a capital, a small letter, a digit, a space,
\* a character outside [a-z0-9_] and the underscore
Alphabet == { "C", "a", "1", " ", "-", "_" }

\* the texts of at most n characters
Texts(n) == UNION { [1..m -> Alphabet] : m \in 0..n }

\* a row of a maps table
StoredRow(n, a) ==
  [id |-> 1, name |-> n, address |-> a, phone |-> "1", website |-> "",
   keyword |-> <<"C">>, location |-> <<"a">>, scraped_at |-> 0]

\* the store files a direct call may find: empty, one with the table c_a
\* holding a row, one with the tables c_a and a_
StoreFiles ==
  { << >>,
    [t \in { <<"c", "_", "a">> } |-> << StoredRow("Joe", "MG") >>],
    [t \in { <<"c", "_", "a">>, <<"a", "_">> } |->
       IF t = <<"a", "_">> THEN << >> ELSE << StoredRow("Joe", "MG") >>] }

InitCalls ==
  /\ call_keyword \in Texts(MaxLen)
  /\ call_location \in Texts(1)
  /\ call_db \in StoreFiles
  /\ call_tname = <<>>
  /\ call_raised = FALSE
  /\ call_count = 0
  /\ call_batch = <<>>

\* normalize_table_name(keyword, location) is called
call_normalize_table_name ==
  /\ call_tname' = normalize_table_name(call_keyword, call_location)
  /\ UNCHANGED <<call_keyword, call_location, call_db, call_raised, call_count,
                 call_batch>>
  /\ UNCHANGED <<maps_vars, jd_vars>>

\* ensure_table(keyword, location, "maps") is called
call_ensure_table ==
  /\ call_count < MaxCalls
  /\ call_count' = call_count + 1
  /\ call_db' = ensure_table(call_db, call_keyword, call_location)
  /\ call_raised' = ensure_table_raises(call_keyword, call_location)
  /\ call_tname' = IF ensure_table_raises(call_keyword, call_location)
                     THEN call_tname
                     ELSE normalize_table_name(call_keyword, call_location)
  /\ UNCHANGED <<call_keyword, call_location, call_batch>>
  /\ UNCHANGED <<maps_vars, jd_vars>>

NextCalls ==
  \/ call_normalize_table_name
  \/ call_ensure_table

(***************************************************************************)
(* Specifications.  The two tabs share no field, no store and no pending   *)
(* event: a behaviour of the program (Spec) is an interleaving of steps of *)
(* the Maps tab and of steps of the JustDial tab.  The handlers of both    *)
(* tabs run on the one GUI thread, so no handler of the Maps tab runs      *)
(* while process_results iterates.  SpecMaps and SpecJustDial are the      *)
(* behaviours that use one tab only.                                       *)
(***************************************************************************)
SpecMaps == Init /\ [][NextMaps]_vars
SpecJustDial == Init /\ [][NextJustDial]_vars

\* the Maps tab when every requested load, every timer and every script
\* evaluation eventually completes (a load with ok true or false)
MapsEventsComplete ==
  /\ WF_vars(\E ok \in BOOLEAN : on_load_finished(ok))
  /\ WF_vars(extract_place)
  /\ WF_vars(got_place(PlaceOf(web_doc)))
  /\ WF_vars(pace_timer_fires)
  /\ WF_vars(\E hrefs \in HrefResults, max_links \in 1..MaxCap :
               got_links(hrefs, max_links))

SpecMapsLive == Init /\ [][NextMaps]_vars /\ MapsEventsComplete

\* direct calls of the helpers, the two tabs being left alone
InitDirectCalls == InitMaps /\ InitJustDial /\ InitCalls

SpecCalls == InitDirectCalls /\ [][NextCalls]_vars

(***************************************************************************)
(* Direct calls of process_results.  The callback is a closure of          *)
(* JustDialScraper.run: it is called in a session whose run has dispatched *)
(* the script, here with a batch of raw records as its argument.           *)
(***************************************************************************)
\* the batches handed to process_results: five records the third of which
\* has the name "N/A", the same batch without that record, three records
\* the last of which has an empty name, two named records, no record
ReturnedBatches ==
  { FivePage, ExtractListings(FivePage), TwinPage, ExtractListings(TwinPage),
    EmptyPage }

\* the JustDial tab after Load JustDial for "c" or "d" in "P" (the generated
\* URL), the end of the load, Start JustDial Scrape with the cap n, and
\* JustDialScraper.run up to its return: the table of the query exists,
\* the script is dispatched and its result has not arrived
InitDispatched ==
  /\ justdial_keyword \in { <<"c">>, <<"d">> }
  /\ justdial_location = <<"P">>
  /\ justdial_keyword_input = justdial_keyword
  /\ justdial_location_input = justdial_location
  /\ justdial_page = GeneratedUrl
  /\ start_enabled = FALSE
  /\ stop_enabled = TRUE
  /\ justdial_progress = -1
  /\ justdial_status = <<"Starting JustDial scraping">>
  /\ justdial_db = ensure_table(<<>>, justdial_keyword, justdial_location)
  /\ is_running = TRUE
  /\ max_listings \in 1..MaxListings
  /\ jd_thread = "finished"
  /\ jd_js = TRUE
  /\ jd_finished_queued = FALSE
  /\ jd_status_queued = <<>>
  /\ justdial_web_load = FALSE
  /\ scroll_js = 0
  /\ scroll_timers = 0
  /\ jd_pc = "idle"
  /\ jd_batch = <<>>
  /\ jd_i = 0
  /\ jd_clock = 0
  /\ jd_raw = <<>>
  /\ jd_forwarded = <<>>
  /\ jd_finished = 0
  /\ jd_stop_late = FALSE
  /\ jd_ended = "none"
  /\ jd_cmds = 2
  /\ jd_notice = NoNotice

\* the batch of the direct call is chosen; no helper of the stores is called
InitBatchCall ==
  /\ call_keyword = <<>>
  /\ call_location = <<>>
  /\ call_db = <<>>
  /\ call_tname = <<>>
  /\ call_raised = FALSE
  /\ call_count = 0
  /\ call_batch \in ReturnedBatches

InitBatch == InitMaps /\ InitDispatched /\ InitBatchCall

\* process_results(result) is called with the batch call_batch
call_process_results ==
  /\ UNCHANGED jd_raw
  /\ process_results(JsList(call_batch))

NextBatch ==
  \/ call_process_results
  \/ loop_step

SpecBatch == InitBatch /\ [][NextBatch]_vars

\* the GUI thread is not inside the for loop of process_results
GuiThreadFree == jd_pc = "idle"

Next ==
  \/ GuiThreadFree /\ NextMaps
  \/ NextJustDial

Spec == Init /\ [][Next]_vars


(***************************************************************************)
(* Properties.                                                             *)
(***************************************************************************)
\* no two rows of a table of db have the same (name, address)
KeysUnique(db) ==
  \A t \in DOMAIN db : \A i, j \in 1..Len(db[t]) :
    (db[t][i].name = db[t][j].name /\ db[t][i].address = db[t][j].address)
      => i = j

\* table t of db exists and has a row with name n and address a
KeyStored(db, t, n, a) ==
  /\ t \in DOMAIN db
  /\ \E i \in 1..Len(db[t]) : db[t][i].name = n /\ db[t][i].address = a

\* C1: in every reachable state, after any sequence of Sequential Mode and
\* Snapshot Mode crawls (repeated crawls of one query included), no table of
\* either store has two rows with the same (name, address).
C1_NoDuplicateKeys == KeysUnique(maps_db) /\ KeysUnique(justdial_db)

\* a second crawl of the same query has met a business the first one stored,
\* in a table that holds two businesses
C1_Witness ==
  /\ undisturbed
  /\ cycles = <<"A">>
  /\ maps_status = <<"Skipped duplicate", "Joe">>
  /\ Len(maps_db[maps_current_table]) = 2

\* the step is _got_place handling an extraction result
GotPlaceStep == place_js' = place_js - 1

\* the step is process_results forwarding a batch item to save_justdial_data
ForwardStep == Len(jd_forwarded') = Len(jd_forwarded) + 1

\* C2: inserting a record whose (name, address) is already in the query's
\* table is a no-op: the store is unchanged (the stored row keeps its
\* scraped_at and its other fields) and the outcome reported is "Skipped
\* duplicate", in both modes, also when the query is run again after an
\* earlier partial crawl.
C2_DuplicateInsertIsNoOp ==
  [][ /\ ( /\ GotPlaceStep
           /\ KeyStored(maps_db, maps_current_table,
                        PlaceField(PlaceOf(web_doc), "name"),
                        PlaceField(PlaceOf(web_doc), "address")) )
         => ( /\ maps_db' = maps_db
              /\ maps_status' =
                   <<"Skipped duplicate", PlaceField(PlaceOf(web_doc), "name")>> )
      /\ ( /\ ForwardStep
           /\ KeyStored(justdial_db, justdial_current_table,
                        jd_batch[jd_i + 1].name, jd_batch[jd_i + 1].address) )
         => ( /\ justdial_db' = justdial_db
              /\ justdial_status' =
                   <<"Skipped duplicate", jd_batch[jd_i + 1].name>> )
    ]_vars

\* the query is crawled again after a partial crawl that stored one business:
\* the first target is skipped and the row of the first crawl is still the
\* only one, with the time of its insertion
C2_Witness ==
  /\ undisturbed
  /\ cycles = <<"A">>
  /\ maps_status = <<"Skipped duplicate", "Joe">>
  /\ Len(maps_db[maps_current_table]) = 1
  /\ maps_db[maps_current_table][1].scraped_at = 0
  /\ maps_clock = 1


\* a crawl that was started with nothing pending and that no user command
\* disturbed has come to its end
CleanCrawlDone == undisturbed /\ ~ scraping

\* C3: Sequential Mode with discovered targets [A, B, C] and cap 2 runs
\* exactly 2 extraction cycles, on A then on B, and reports the progress
\* values 50 then 100 (after the reset to 0 of the start); in general, with n
\* discovered targets and cap c, the crawl runs its cycles on the first
\* min(n, c) targets in order, exactly min(n, c) of them when it ends, and the
\* last progress value is 100.
C3_CapBoundsCycles ==
  LET n == Len(hrefs_found)
      m == Min(n, cap_used)
  IN /\ undisturbed =>
          /\ Len(cycles) <= m
          /\ cycles = SubSeq(hrefs_found, 1, Len(cycles))
          /\ Len(maps_prog_log) = Len(cycles) + 1
     /\ CleanCrawlDone =>
          /\ Len(cycles) = m
          /\ maps_prog_log[m + 1] = 100
          /\ maps_progress = 100
     /\ (CleanCrawlDone /\ hrefs_found = <<"A", "B", "C">> /\ cap_used = 2) =>
          /\ cycles = <<"A", "B">>
          /\ maps_prog_log = <<0, 50, 100>>

\* the crawl of [A, B, C] with cap 2 has ended
C3_Witness ==
  /\ CleanCrawlDone
  /\ hrefs_found = <<"A", "B", "C">>
  /\ cap_used = 2
  /\ maps_status = <<"Scraping finished.">>


\* the step is the pacing timer calling _process_next_link (the advance)
AdvanceStep == pace_timers' = pace_timers - 1

\* C4: in Sequential Mode, once the running flag of the session is false
\* while a target is being processed, the next target is never loaded: the
\* next advance sees the cleared flag and ends the session instead of
\* requesting a load.
C4_ClearedFlagStopsLoads ==
  [][ (AdvanceStep /\ ~ scraping) => (web_load' = web_load /\ ~ scraping') ]_vars

\* the load of a target of the running crawl ends with ok = false
FailedTargetLoad ==
  /\ on_load_finished(FALSE)
  /\ scraping
  /\ \E i \in 1..Len(links) : web_load = links[i]

\* C5: in Sequential Mode, when the load of targets[index] ends with
\* ok = false, the target is skipped and the cursor still advances (the next
\* advance is made or scheduled), so that the session reaches completion.
C5_FailedLoadAdvances ==
  [][ FailedTargetLoad =>
        \/ links_index' = links_index + 1
        \/ pace_timers' = pace_timers + 1
        \/ web_load' # NoLoad
        \/ ~ scraping' ]_vars

\* C6: a storage-layer error raised while looking up or inserting one record
\* is a non-fatal per-record failure: the crawl goes on to the next target
\* (in Sequential Mode the cursor index is still incremented and the next
\* advance is scheduled) and the session still ends normally.
C6_StoreErrorContinues ==
  [][ (GotPlaceStep /\ ~ TableExists(maps_db, maps_current_table)) =>
        (links_index' = links_index + 1 /\ pace_timers' = pace_timers + 1) ]_vars


\* the names of the items of a sequence of records
NamesOf(items) == [i \in 1..Len(items) |-> items[i].name]

\* a name the extraction discards
NoName(n) == n = "N/A" \/ n = ""

\* process_results, called with the batch of five raw records the third of
\* which has the name "N/A", with cap >= 5 and without a stop request, has
\* come to the end of the batch
FiveBatchDone ==
  /\ jd_ended = "finished"
  /\ call_batch = FivePage
  /\ max_listings >= 5
  /\ is_running

C8_CompletionExactlyOnce ==
  /\ jd_finished <= 1
  /\ jd_ended # "none" => jd_finished = 1

\* C9: a stop request made after the extraction script was dispatched and
\* before the returned batch is handled sets the cancel flag, so that no
\* batch item is forwarded to the store afterwards.
C9_LateStopCancels ==
  jd_stop_late => (~ is_running /\ jd_forwarded = <<>>)

\* the step is start_justdial_scrape with a keyword and a location entered
StartScrapeStep ==
  \E k \in KeywordFieldTexts, l \in LocationFieldTexts, n \in 1..MaxListings :
    /\ Strip(k) # <<>>
    /\ Strip(l) # <<>>
    /\ start_justdial_scrape(k, l, n)

\* C10: starting a Snapshot Mode run when the loaded page is not on the
\* target site fails fast: no extraction script is invoked, no thread is
\* started, no navigation is performed, no table is created, the keyword and
\* the location of the session are not changed and the session stays idle.
C10_OffSiteStartFailsFast ==
  [][ (StartScrapeStep /\ justdial_page \notin TargetSiteUrls) =>
        /\ UNCHANGED <<jd_js, jd_thread, jd_finished_queued, jd_status_queued, jd_pc>>
        /\ UNCHANGED <<justdial_page, justdial_web_load, justdial_db>>
        /\ UNCHANGED <<justdial_keyword, justdial_location>>
        /\ UNCHANGED <<is_running, start_enabled, stop_enabled>>
        /\ justdial_status' = <<"Please load a JustDial page first">> ]_vars

\* a start was refused on a page off the target site, after a query had been
\* loaded: the session is idle and no table exists
C10_Witness ==
  /\ justdial_status = <<"Please load a JustDial page first">>
  /\ justdial_page \notin TargetSiteUrls
  /\ jd_thread = "none"
  /\ ~ jd_js
  /\ start_enabled
  /\ DOMAIN justdial_db = {}


\* the texts of an input field that hold no keyword or location
BlankTexts == { <<>>, <<" ">> }

\* the step is load_maps with the keyword or the location missing
LoadMapsInputError ==
  \E k \in KeywordInputs, l \in LocationInputs :
    /\ k \in BlankTexts \/ l \in BlankTexts
    /\ load_maps(k, l)

\* the step is load_justdial with a direct URL off the target site, or with
\* no direct URL and the keyword or the location missing
LoadJustDialInputError ==
  \E u \in DirectUrlInputs, k \in KeywordFieldTexts, l \in LocationFieldTexts :
    /\ \/ u = "example.com/x"
       \/ u = "" /\ (k \in BlankTexts \/ l \in BlankTexts)
    /\ load_justdial(u, k, l)

\* the step is start_justdial_scrape with the keyword or the location missing
StartJustDialInputError ==
  \E k \in KeywordFieldTexts, l \in LocationFieldTexts, n \in 1..MaxListings :
    /\ k \in BlankTexts \/ l \in BlankTexts
    /\ start_justdial_scrape(k, l, n)

\* the state of the two tabs, apart from the message boxes and from the texts
\* the user typed into the input fields
program_state ==
  <<maps_fields, maps_events, maps_session, jd_fields, jd_scraper, jd_events,
    jd_session>>

\* C11: an input error (keyword or location missing when loading or
\* starting, or a direct URL off the target site) is surfaced at once in a
\* message box and changes no state: the query, the targets, the cursor
\* index, the session flags and both stores are as before and no page load
\* is requested.
C11_InputErrorChangesNothing ==
  [][ /\ LoadMapsInputError =>
           (maps_notice' = MissingInput /\ UNCHANGED program_state)
      /\ LoadJustDialInputError =>
           (jd_notice' \in {MissingInput, InvalidURL}
              /\ UNCHANGED program_state)
      /\ StartJustDialInputError =>
           (jd_notice' = MissingInput /\ UNCHANGED program_state) ]_vars

\* a load without keyword was refused on the Maps tab while a crawl was
\* running with a load pending
C11_Witness ==
  /\ maps_notice = MissingInput
  /\ scraping
  /\ web_load # NoLoad
  /\ links # <<>>


\* C12: starting a Sequential Mode scrape when no targets have been
\* collected is rejected with a notice and leaves the state unchanged: the
\* session does not become Scraping, no table is created, no load is
\* requested, and index and progress are not reset.
C12_StartWithoutTargetsRejected ==
  [][ (start_scrape /\ links = <<>>) =>
        /\ maps_notice' = NoLinks
        /\ ~ scraping'
        /\ UNCHANGED <<maps_db, web_load, links_index, maps_progress>>
        /\ UNCHANGED program_state ]_vars

\* a start was refused after a query had been loaded: no table exists, the
\* session is idle and the progress bar was never set
C12_Witness ==
  /\ maps_notice = NoLinks
  /\ current_keyword = <<"c">>
  /\ DOMAIN maps_db = {}
  /\ ~ scraping
  /\ maps_progress = -1


\* C13: at most one session per mode is Scraping at any time: a start
\* request issued while a session of the mode is Scraping is rejected, that
\* is, it neither resets the cursor index of the running session nor starts
\* a second chain of load and extract callbacks.
C13_StartWhileScrapingRejected ==
  [][ (start_scrape /\ scraping) =>
        /\ links_index' = links_index
        /\ web_load' = web_load
        /\ UNCHANGED <<scraping, maps_progress, maps_db>> ]_vars


\* what becomes of one character of the alphabet in a table name
NameChars(c) ==
  CASE c = "C" -> <<"c">>
    [] c = " " -> <<"_">>
    [] c = "-" -> << >>
    [] OTHER   -> <<c>>

\* the table name of a text, character by character
RECURSIVE NameOf(_)
NameOf(text) ==
  IF text = << >> THEN << >> ELSE NameChars(Head(text)) \o NameOf(Tail(text))

\* C14: for every keyword and location, normalize_table_name returns the
\* same lower-case name made of characters of [a-z0-9_] only: keyword, "_"
\* and location lower-cased, each space replaced by "_" and every other
\* character outside [a-z0-9_] removed ("Cafes", "Pune" gives cafes_pune).
C14_NormalizedName ==
  /\ call_tname # << >> =>
       /\ call_tname = NameOf(call_keyword \o <<"_">> \o call_location)
       /\ \A i \in 1..Len(call_tname) :
            /\ call_tname[i] \in {"a", "c", "1", "_"}
            /\ call_tname[i] \notin {"C", " ", "-"}
  /\ normalize_table_name(<<"C", "a", "f", "e", "s">>, <<"P", "u", "n", "e">>)
       = <<"c", "a", "f", "e", "s", "_", "p", "u", "n", "e">>

\* the name of keyword "C-" and location " " was computed
C14_Witness ==
  /\ call_keyword = <<"C", "-">>
  /\ call_location = <<" ">>
  /\ call_tname = <<"c", "_", "_">>
  /\ call_count = 0


\* no row of a table of db lacks a name
AllNamed(db) ==
  \A t \in DOMAIN db : \A i \in 1..Len(db[t]) : ~ NoName(db[t][i].name)

\* C15: no persisted record lacks a name: in every reachable state no row
\* of any table of either store has an empty name or the name "N/A"; an
\* extraction result without a name is discarded instead of inserted.
C15_NoNamelessRow == AllNamed(maps_db) /\ AllNamed(justdial_db)


\* C16: ensure_table is idempotent: called for a query whose table exists
\* it returns the same table identifier and leaves that table and every
\* other table unchanged; called for an absent table it creates exactly
\* that one empty table.
C16_EnsureTableIdempotent ==
  [][ call_ensure_table =>
        LET tname == normalize_table_name(call_keyword, call_location)
        IN /\ call_tname' = tname
           /\ ~ call_raised'
           /\ TableExists(call_db, tname) => call_db' = call_db
           /\ ~ TableExists(call_db, tname) =>
                /\ DOMAIN call_db' = DOMAIN call_db \cup {tname}
                /\ call_db'[tname] = << >>
                /\ \A t \in DOMAIN call_db : call_db'[t] = call_db[t] ]_vars


\* C17: within one session of either mode the progress values emitted are
\* non-decreasing: a value emitted during a session is not below the one
\* emitted before it in that session.
C17_ProgressNonDecreasing ==
  [][ /\ (GotPlaceStep /\ scraping) => maps_progress' >= maps_progress
      /\ (ForwardStep /\ jd_i >= 1) =>
           justdial_progress' >= justdial_progress ]_vars


\* the number of steps of the crawl in flight: a pending page load, pending
\* settle delays, pending extractions and pending pacing delays
InFlight ==
  (IF web_load # NoLoad THEN 1 ELSE 0) + settle_timers + place_js + pace_timers

\* C18: in Sequential Mode at most one step of a session is in flight at
\* any time (one pending load, or one settle delay, or one extraction, or
\* one pacing delay), so that no two extraction callbacks of a session
\* overlap.
C18_SingleStepInFlight == scraping => InFlight <= 1

\* the step requests the load of a target: start_scrape or the advance of
\* the pacing timer, ending in web.load(links[...])
TargetLoadStep ==
  /\ start_scrape \/ pace_timer_fires
  /\ \E j \in 1..Len(links') : web_load' = links'[j]

\* C19: within one session targets are loaded strictly in collection order,
\* none twice and none ahead of an earlier one: a load requested while the
\* session is running is the load of the target at the cursor, the targets
\* before the cursor having been loaded and stored.
C19_LoadsInCollectionOrder ==
  [][ (TargetLoadStep /\ scraping) =>
        (links_index' = links_index /\ web_load' = links[links_index + 1]) ]_vars

\* C20: every started Sequential Mode session terminates: when each
\* requested load and each script evaluation eventually completes, a session
\* that is Scraping eventually is Idle (scraping = false).
C20_SessionTerminates == scraping ~> ~ scraping


\* the batch the script of the current run returned
ReturnedBatch == ExtractListings(jd_raw)

\* C21: in Snapshot Mode the batch is handled in the order returned and
\* handling stops as soon as the cap is reached: in one run at most cap
\* items are forwarded to the store, they are a prefix of the returned
\* batch, and no item at position >= cap is forwarded.
C21_CapBoundsForwarded ==
  /\ Len(jd_forwarded) <= max_listings
  /\ Len(jd_forwarded) <= Len(ReturnedBatch)
  /\ \A i \in 1..Len(jd_forwarded) :
       /\ jd_forwarded[i].name = ReturnedBatch[i].name
       /\ jd_forwarded[i].address = ReturnedBatch[i].address
       /\ jd_forwarded[i].phone = ReturnedBatch[i].phone

\* the run on the page of five listings (a batch of four) has ended at the
\* cap of 2, without a stop request
C21_Witness ==
  /\ jd_ended = "finished"
  /\ jd_raw = FivePage
  /\ max_listings = 2
  /\ is_running
  /\ NamesOf(jd_forwarded) = <<"Joe", "Moe">>


\* the step is process_results leaving its loop and emitting the final
\* status line
FinalStatusStep == jd_pc = "loop" /\ jd_pc' = "idle" /\ jd_ended' = "finished"

\* C22: the final status line of a Snapshot Mode run reports the count of
\* items processed in that run, whether the run ended by exhausting the
\* batch, by reaching the cap, or by cancellation.
C22_FinalStatusCountsProcessed ==
  [][ FinalStatusStep =>
        justdial_status' = <<"Finished processing", Len(jd_forwarded)>> ]_vars


\* the step is the advance that finds the cursor at the end of the targets
\* and ends the crawl
CompletionStep ==
  pace_timer_fires /\ scraping /\ maps_status' = <<"Scraping finished.">>

\* C23: when a Sequential Mode crawl completes the session is reset, the
\* mode being back in Idle and not in LinksCollected: its targets and cursor
\* are cleared, so that a start request that follows without a new link
\* collection is rejected as having no targets.
C23_CompletionClearsTargets ==
  [][ /\ CompletionStep => (links' = << >> /\ links_index' = 0)
      /\ (start_scrape /\ maps_status = <<"Scraping finished.">>) =>
           (maps_notice' = NoLinks /\ ~ scraping') ]_vars


\* the step is _on_load_finished handling the end of a page load
LoadFinishedStep == \E ok \in BOOLEAN : on_load_finished(ok)

\* C24: in Sequential Mode an extraction or a store write happens only while
\* the session is Scraping: once scraping is false, a page load in the view
\* (Load Maps for a new query, say) schedules no extraction, and no
\* extraction result is inserted or moves the cursor index.
C24_IdleLoadExtractsNothing ==
  [][ /\ (LoadFinishedStep /\ ~ scraping) => settle_timers' = settle_timers
      /\ (GotPlaceStep /\ ~ scraping) => UNCHANGED <<maps_db, links_index>> ]_vars


\* C25: in every reachable state of Sequential Mode, also after a start or
\* a link collection issued while a crawl is running, the cursor index is
\* within 0..len(links) and the progress value computed from it is within
\* 0..100; likewise the progress value emitted in Snapshot Mode is within
\* 0..100.
C25_CursorAndProgressInRange ==
  /\ links_index >= 0
  /\ links_index <= Len(links)
  /\ links # << >> => Percent(links_index, Len(links)) \in 0..100
  /\ (jd_pc = "loop" /\ jd_i >= 1) =>
       Percent(jd_i, Min(Len(jd_batch), max_listings)) \in 0..100


\* C26: whenever a store lookup or insert is attempted during a session,
\* the table named by the normalized current query exists: changing the
\* query (Load Maps, Load JustDial) while a session is running does not
\* redirect its writes to a table that does not exist.
C26_WritesGoToEnsuredTable ==
  [][ /\ (GotPlaceStep /\ scraping) => TableExists(maps_db, maps_current_table)
      /\ ForwardStep => TableExists(justdial_db, justdial_current_table) ]_vars

\* every row of every table of db records a query whose table it is in
RowsInOwnTable(db) ==
  \A t \in DOMAIN db : \A i \in 1..Len(db[t]) :
    normalize_table_name(db[t][i].keyword, db[t][i].location) = t

\* C27: every persisted row is stored in the table of its own query: for
\* each row r of a table t of either store,
\* normalize_table_name(r.keyword, r.location) = t, after any sequence of
\* loads, link collections, starts and crawls.
C27_RowsInTableOfOwnQuery ==
  RowsInOwnTable(maps_db) /\ RowsInOwnTable(justdial_db)

\* the query was changed from "c" to "C" during a crawl, and the table c_p
\* holds a row of each
C27_Witness ==
  /\ TableExists(maps_db, <<"c", "_", "p">>)
  /\ \E i, j \in 1..Len(maps_db[<<"c", "_", "p">>]) :
       /\ maps_db[<<"c", "_", "p">>][i].keyword = <<"c">>
       /\ maps_db[<<"c", "_", "p">>][j].keyword = <<"C">>

====
